---- MODULE Spec2Model ----
(***************************************************************************)
(* Perspective correction of lensfun (libs/lensfun/mod-pc.cpp).            *)
(*                                                                         *)
(* The source computes in IEEE single precision.  The model computes in a  *)
(* decimal fixed-point format with the IEEE special values: a float is an  *)
(* integer, the finite values being the multiples of 1/Scale between       *)
(* -MaxRaw/Scale and MaxRaw/Scale, followed by +Inf, -Inf and NaN.  Every  *)
(* operation rounds to the nearest representable value, overflows to an    *)
(* infinity and propagates NaN as IEEE arithmetic does (a zero carries no  *)
(* sign).                                                                  *)
(***************************************************************************)
EXTENDS Integers, Sequences, FiniteSets, TLC

(* ------------------------------------------------------------------ *)
(* The float format.                                                   *)
(* ------------------------------------------------------------------ *)
Scale == 1000
MaxRaw == 2000000
PInf == MaxRaw + 1
NInf == -PInf
NAN == MaxRaw + 2

F(n) == n * Scale

iabs(n) == IF n < 0 THEN -n ELSE n
isgn(n) == IF n < 0 THEN -1 ELSE 1

isnan(a) == a = NAN
isinf(a) == a = PInf \/ a = NInf
isfinite(a) == a >= -MaxRaw /\ a <= MaxRaw

saturate(v) == IF v > MaxRaw THEN PInf ELSE IF v < -MaxRaw THEN NInf ELSE v

fneg(a) == IF isnan(a) THEN NAN ELSE -a

fadd(a, b) ==
    IF isnan(a) \/ isnan(b) THEN NAN
    ELSE IF isinf(a) THEN (IF isinf(b) /\ a # b THEN NAN ELSE a)
    ELSE IF isinf(b) THEN b
    ELSE saturate(a + b)

fsub(a, b) == fadd(a, fneg(b))

fmul(a, b) ==
    IF isnan(a) \/ isnan(b) THEN NAN
    ELSE IF isinf(a) \/ isinf(b)
         THEN (IF a = 0 \/ b = 0 THEN NAN
               ELSE IF isgn(a) = isgn(b) THEN PInf ELSE NInf)
    ELSE IF a = 0 \/ b = 0 THEN 0
    ELSE IF iabs(a) > (MaxRaw * Scale) \div iabs(b)
         THEN (IF isgn(a) = isgn(b) THEN PInf ELSE NInf)
    ELSE isgn(a) * isgn(b) * ((iabs(a) * iabs(b) + Scale \div 2) \div Scale)

fdiv(a, b) ==
    IF isnan(a) \/ isnan(b) THEN NAN
    ELSE IF isinf(a)
         THEN (IF isinf(b) THEN NAN
               ELSE IF (a > 0) = (b >= 0) THEN PInf ELSE NInf)
    ELSE IF isinf(b) THEN 0
    ELSE IF b = 0
         THEN (IF a = 0 THEN NAN ELSE IF a > 0 THEN PInf ELSE NInf)
    ELSE saturate(isgn(a) * isgn(b) *
                  ((iabs(a) * Scale + iabs(b) \div 2) \div iabs(b)))

(* The comparisons: every comparison with NaN is false. *)
flt(a, b) == ~isnan(a) /\ ~isnan(b) /\ a < b
fle(a, b) == ~isnan(a) /\ ~isnan(b) /\ a <= b
fgt(a, b) == flt(b, a)
fge(a, b) == fle(b, a)
feq(a, b) == ~isnan(a) /\ ~isnan(b) /\ a = b

fabs(a) == IF isnan(a) THEN NAN ELSE iabs(a)

RECURSIVE isqrt_between(_, _, _)
isqrt_between(n, lo, hi) ==
    IF lo >= hi THEN lo
    ELSE LET mid == (lo + hi + 1) \div 2
         IN  IF mid * mid <= n THEN isqrt_between(n, mid, hi)
             ELSE isqrt_between(n, lo, mid - 1)

(* The integer nearest to the square root of n, 0 <= n < 2^31. *)
isqrt(n) ==
    LET r == isqrt_between(n, 0, 46340)
    IN  IF n - r * r > r THEN r + 1 ELSE r

sqrt(a) ==
    IF isnan(a) \/ a < 0 THEN NAN
    ELSE IF a = PInf THEN PInf
    ELSE isqrt(a * Scale)

(* pow is only ever called with the exponent 2. *)
pow(a, e) == IF e = 2 THEN fmul(a, a) ELSE NAN

(* ------------------------------------------------------------------ *)
(* The elementary functions, evaluated by range reduction and series   *)
(* with one more decimal digit than the format carries.                *)
(* ------------------------------------------------------------------ *)
Guard == 10
Fine == Scale * Guard

M_PI == 3142
M_PI_2 == 1571
FinePi == 31416
FinePi_2 == 15708
FineLn2 == 6931

(* Rounded product and quotient of two values of the finer format. *)
tmul(a, b) == isgn(a) * isgn(b) * ((iabs(a) * iabs(b) + Fine \div 2) \div Fine)
tdiv(a, b) == isgn(a) * isgn(b) * ((iabs(a) * Fine + iabs(b) \div 2) \div iabs(b))
coarse(t) == isgn(t) * ((iabs(t) + Guard \div 2) \div Guard)

(* sin and cos of t, 0 <= t <= pi/2, in the finer format. *)
sin_series(t) ==
    LET t2 == tmul(t, t)
        p4 == Fine - t2 \div 72
        p3 == Fine - tmul(t2, p4) \div 42
        p2 == Fine - tmul(t2, p3) \div 20
        p1 == Fine - tmul(t2, p2) \div 6
    IN  tmul(t, p1)

cos_series(t) ==
    LET t2 == tmul(t, t)
        p4 == Fine - t2 \div 56
        p3 == Fine - tmul(t2, p4) \div 30
        p2 == Fine - tmul(t2, p3) \div 12
    IN  Fine - tmul(t2, p2) \div 2

(* The angle a reduced to 0 <= t < 2 pi, in the finer format. *)
reduce(a) == (a * Guard) % (2 * FinePi)

(* the angle of the first quadrant with the same sine and cosine, up to sign *)
first_quadrant(t) ==
    IF t <= FinePi_2 THEN t
    ELSE IF t <= FinePi THEN FinePi - t
    ELSE IF t <= FinePi + FinePi_2 THEN t - FinePi
    ELSE 2 * FinePi - t

sin(a) ==
    IF ~isfinite(a) THEN NAN
    ELSE coarse((IF reduce(a) <= FinePi THEN 1 ELSE -1)
                * sin_series(first_quadrant(reduce(a))))

cos(a) ==
    IF ~isfinite(a) THEN NAN
    ELSE coarse((IF reduce(a) <= FinePi_2 \/ reduce(a) > FinePi + FinePi_2 THEN 1 ELSE -1)
                * cos_series(first_quadrant(reduce(a))))

(* atan of t, 0 <= t <= 1, in the finer format: two halvings of the angle,
   atan t = 2 atan (t / (1 + sqrt (1 + t^2))), and then the series. *)
atan_half(t) == tdiv(t, Fine + isqrt((Fine + tmul(t, t)) * Fine))

atan_series(t) ==
    LET t2 == tmul(t, t)
        p3 == Fine \div 5 - tmul(t2, Fine \div 7)
        p2 == Fine \div 3 - tmul(t2, p3)
        p1 == Fine - tmul(t2, p2)
    IN  tmul(t, p1)

atan_unit(t) == 4 * atan_series(atan_half(atan_half(t)))

atan(a) ==
    IF isnan(a) THEN NAN
    ELSE IF a = PInf THEN M_PI_2
    ELSE IF a = NInf THEN -M_PI_2
    ELSE isgn(a) * coarse((IF iabs(a) <= Scale THEN 0 ELSE FinePi_2)
                          + (IF iabs(a) <= Scale THEN 1 ELSE -1)
                            * atan_unit(IF iabs(a) <= Scale THEN iabs(a) * Guard
                                        ELSE tdiv(Fine, iabs(a) * Guard)))

atan2(y, x) ==
    IF isnan(y) \/ isnan(x) THEN NAN
    ELSE IF isinf(y) /\ isinf(x)
         THEN isgn(y) * (IF x > 0 THEN M_PI_2 \div 2 ELSE M_PI - M_PI_2 \div 2)
    ELSE IF x = 0 THEN (IF y > 0 THEN M_PI_2 ELSE IF y < 0 THEN -M_PI_2 ELSE 0)
    ELSE fadd(atan(fdiv(y, x)),
              IF x > 0 THEN 0 ELSE IF y >= 0 THEN M_PI ELSE fneg(M_PI))

acos(a) ==
    IF isnan(a) \/ a > Scale \/ a < -Scale THEN NAN
    ELSE fsub(M_PI_2, atan(fdiv(a, sqrt(fsub(F(1), fmul(a, a))))))

fmod(a, b) ==
    IF isnan(a) \/ isnan(b) \/ isinf(a) \/ b = 0 THEN NAN
    ELSE IF isinf(b) THEN a
    ELSE isgn(a) * (iabs(a) % iabs(b))

(* log of t, t >= 1 in the finer format: log t = k log 2 + log m with
   1 <= m < 2, and log m = 2 artanh ((m - 1) / (m + 1)). *)
RECURSIVE log_reduce(_, _)
log_reduce(t, k) ==
    IF t >= 2 * Fine THEN log_reduce((t + 1) \div 2, k + 1)
    ELSE LET u == tdiv(t - Fine, t + Fine)
             u2 == tmul(u, u)
             p3 == Fine \div 5 + tmul(u2, Fine \div 7)
             p2 == Fine \div 3 + tmul(u2, p3)
             p1 == Fine + tmul(u2, p2)
         IN  k * FineLn2 + 2 * tmul(u, p1)

log(a) ==
    IF isnan(a) \/ a < 0 THEN NAN
    ELSE IF a = 0 THEN NInf
    ELSE IF a = PInf THEN PInf
    ELSE IF a >= Scale THEN coarse(log_reduce(a * Guard, 0))
    ELSE -coarse(log_reduce(tdiv(Fine, a * Guard), 0))

(* ------------------------------------------------------------------ *)
(* fvector and matrix: functions on 0 .. n-1, indexed as in the source *)
(* ------------------------------------------------------------------ *)
fvector(s) == [i \in 0 .. Len(s) - 1 |-> s[i + 1]]
size(v) == Cardinality(DOMAIN v)
(* fvector (v.begin() + from, v.begin() + to) *)
slice(v, from, to) == [i \in 0 .. to - from - 1 |-> v[from + i]]

(* std::accumulate (v.begin() + from, v.begin() + to, 0.) *)
RECURSIVE accumulate(_, _, _)
accumulate(v, from, to) ==
    IF from >= to THEN 0 ELSE fadd(accumulate(v, from, to - 1), v[to - 1])

(* ------------------------------------------------------------------ *)
(* The state.                                                          *)
(* ------------------------------------------------------------------ *)
VARIABLES
    f_normalized,   \* lfModifier::f_normalized
    NormScale,      \* lfModifier::NormScale
    CenterX,        \* lfModifier::CenterX
    CenterY,        \* lfModifier::CenterY
    callbacks,      \* the coordinate callbacks AddCoordCallback has registered
    control_points, \* the control points [x, y] the application passes
    calls,          \* the calls of enable_perspective_correction so far
    iocoord,        \* the coordinate buffer of the last callback invocation
    args,           \* arguments of the function under test (function specifications)
    result          \* its result

vars == <<f_normalized, NormScale, CenterX, CenterY, callbacks, control_points,
          calls, iocoord, args, result>>

(* ------------------------------------------------------------------ *)
(* Linear-algebra primitives.                                          *)
(* ------------------------------------------------------------------ *)
normalize(x, y) ==
    LET norm == sqrt(fadd(pow(x, 2), pow(y, 2)))
    IN  fvector(<<fdiv(x, norm), fdiv(y, norm)>>)

central_projection(coordinates, plane_distance) ==
    LET stretch_factor == fdiv(plane_distance, coordinates[2])
    IN  [x |-> fmul(coordinates[0], stretch_factor),
         y |-> fmul(coordinates[1], stretch_factor)]

(* The rows x^2, x y, y^2, x, y, 1 that ellipse_analysis pushes to M. *)
conic_rows(x, y) ==
    [i \in 0 .. 4 |->
        fvector(<<pow(x[i], 2), fmul(x[i], y[i]), pow(y[i], 2), x[i], y[i], F(1)>>)]

(* Five points of the ellipse (x / 0.8)^2 + ((y - 0.1) / 0.4)^2 = 1, and the
   points 2 p - (0.1, -0.1) of the ellipse
   ((x + 0.1) / 1.6)^2 + ((y - 0.3) / 0.8)^2 = 1. *)
EllipseX == fvector(<<800, 400, -400, -752, 400>>)
EllipseY == fvector(<<100, 446, 446, -37, -246>>)
WideEllipseX == [i \in 0 .. 4 |-> 2 * EllipseX[i] - 100]
WideEllipseY == [i \in 0 .. 4 |-> 2 * EllipseY[i] + 100]

(* svd returns the right-singular vector of the smallest singular value:
   for the rows of five points of a conic, the unit vector of the conic's
   coefficients.  The sweeps are not computed here: the vector is tabulated
   for the matrices of the two ellipses above (the format has too few digits
   for the smallest singular value).  The loop itself follows. *)
svd(M) ==
    IF M = conic_rows(EllipseX, EllipseY)
    THEN fvector(<<236, 0, 943, 0, -189, -141>>)
    ELSE IF M = conic_rows(WideEllipseX, WideEllipseY)
    THEN fvector(<<190, 0, 761, 38, -457, -417>>)
    ELSE fvector(<<0, 0, 0, 0, 0, 0>>)

(* ------------------------------------------------------------------ *)
(* The sweep loop of svd.                                              *)
(* ------------------------------------------------------------------ *)

(* std::numeric_limits<float>::epsilon(): the gap between 1 and the next
   value of the format *)
numeric_limits_epsilon == 1

max_cycles(n) == IF n < 120 THEN 30 ELSE n \div 4
epsilon == fmul(numeric_limits_epsilon, F(10))
e2(n) == fmul(fmul(F(10), F(n)), pow(epsilon, 2))
threshold == fmul(100, epsilon)

(* M.resize (2 * n, fvector (n)); M [n + i][i] = 1: rows beyond 2 n are
   dropped, missing rows are zero, then the diagonal of the lower half is set *)
svd_resized(M, n) ==
    [i \in 0 .. 2 * n - 1 |->
        [c \in 0 .. n - 1 |->
            IF i >= n /\ c = i - n THEN F(1)
            ELSE IF i < size(M) THEN M[i][c] ELSE 0]]

(* the sum over the rows 0 .. i of M [.][j] * M [.][k], added in this order *)
RECURSIVE svd_sum(_, _, _, _)
svd_sum(M, j, k, i) ==
    IF i < 0 THEN 0
    ELSE fadd(svd_sum(M, j, k, i - 1),
              IF j = k THEN pow(M[i][j], 2) ELSE fmul(M[i][j], M[i][k]))

(* M [i][j] = d1 * c0 + d2 * s0; M [i][k] = - d1 * s0 + d2 * c0 *)
svd_rotated(M, j, k, c0, s0) ==
    [i \in DOMAIN M |->
        [c \in DOMAIN M[i] |->
            IF c = j THEN fadd(fmul(M[i][j], c0), fmul(M[i][k], s0))
            ELSE IF c = k THEN fadd(fmul(fneg(M[i][j]), s0), fmul(M[i][k], c0))
            ELSE M[i][c]]]

(* the branch q >= r that rotates, last step first: p /= q; r = 1 - r / q;
   vt = sqrt (4 p^2 + r^2); c0 = sqrt (0.5 (1 + r / vt)); s0 = p / (vt c0) *)
svd_rotated_q(M, j, k, p, vt, c0) ==
    svd_rotated(M, j, k, c0, fdiv(p, fmul(vt, c0)))

svd_angle_q(M, j, k, p, r, vt) ==
    svd_rotated_q(M, j, k, p, vt, sqrt(fmul(500, fadd(F(1), fdiv(r, vt)))))

svd_branch_q(M, j, k, p, r) ==
    svd_angle_q(M, j, k, p, r, sqrt(fadd(fmul(F(4), pow(p, 2)), pow(r, 2))))

(* the branch q < r, last step first: p /= r; q = q / r - 1;
   vt = sqrt (4 p^2 + q^2); s0 = sqrt (0.5 (1 - q / vt));
   if (p < 0) s0 = - s0; c0 = p / (vt s0) *)
svd_rotated_r(M, j, k, p, vt, s0) ==
    svd_rotated(M, j, k, fdiv(p, fmul(vt, s0)), s0)

svd_angle_r(M, j, k, p, q, vt, s0) ==
    svd_rotated_r(M, j, k, p, vt, IF flt(p, 0) THEN fneg(s0) ELSE s0)

svd_branch_r(M, j, k, p, q, vt) ==
    svd_angle_r(M, j, k, p, q, vt, sqrt(fmul(500, fsub(F(1), fdiv(q, vt)))))

(* the body of the loop over k for the columns j < k with the sums p, q, r;
   S2 [j] and S2 [k] are assigned before S2 [0] is read *)
svd_pair(s, j, k, n, p, q, r, S2) ==
    IF fge(q, r)
    THEN IF fle(q, fmul(e2(n), S2[0])) \/ fle(fabs(p), fmul(threshold, q))
         THEN [M |-> s.M, S2 |-> S2, counter |-> s.counter - 1]
         ELSE [M |-> svd_branch_q(s.M, j, k, fdiv(p, q), fsub(F(1), fdiv(r, q))),
               S2 |-> S2, counter |-> s.counter]
    ELSE [M |-> svd_branch_r(
                    s.M, j, k, fdiv(p, r), fsub(fdiv(q, r), F(1)),
                    sqrt(fadd(fmul(F(4), pow(fdiv(p, r), 2)),
                              pow(fsub(fdiv(q, r), F(1)), 2)))),
          S2 |-> S2, counter |-> s.counter]

svd_sums(s, j, k, n, q, r) ==
    svd_pair(s, j, k, n, svd_sum(s.M, j, k, n - 1), q, r,
             [[s.S2 EXCEPT ![j] = q] EXCEPT ![k] = r])

(* for (i = 0; i < n; i++) { p += x0 * y0; q += pow (x0, 2); r += pow (y0, 2) } *)
svd_columns(s, j, k, n) ==
    svd_sums(s, j, k, n, svd_sum(s.M, j, j, n - 1), svd_sum(s.M, k, k, n - 1))

(* while (estimated_column_rank > 2 && S2 [estimated_column_rank - 1] <=
          S2 [0] * threshold + pow (threshold, 2)) estimated_column_rank-- *)
RECURSIVE svd_rank(_, _)
svd_rank(S2, estimated_column_rank) ==
    IF estimated_column_rank > 2
       /\ fle(S2[estimated_column_rank - 1],
              fadd(fmul(S2[0], threshold), pow(threshold, 2)))
    THEN svd_rank(S2, estimated_column_rank - 1)
    ELSE estimated_column_rank

(* result.push_back of the last column of the rows n .. 2 n - 1 *)
svd_result(M, n) == [i \in 0 .. n - 1 |-> M[n + i][n - 1]]

(* The steps of ellipse_analysis, last step first: each one takes the values
   the function has computed so far. *)
ellipse_vanishing_point(radius_vertex, phi, x0, y0) ==
    [x_v |-> fmul(radius_vertex, sin(phi)),
     y_v |-> fmul(radius_vertex, cos(phi)),
     center_x |-> x0,
     center_y |-> y0]

(* if ((x [0] - x0) * (y [1] - y0) < (x [1] - x0) * (y [0] - y0)) *)
ellipse_vertex(x, y, radius_vertex, phi, x0, y0) ==
    ellipse_vanishing_point(
        IF flt(fmul(fsub(x[0], x0), fsub(y[1], y0)),
               fmul(fsub(x[1], x0), fsub(y[0], y0)))
        THEN fmul(radius_vertex, F(-1)) ELSE radius_vertex,
        phi, x0, y0)

(* if (a_ < b_) { swap; phi -= M_PI_2 }, then the normal form of phi *)
ellipse_axes(x, y, f_norm, a_, b_, phi, x0, y0) ==
    ellipse_vertex(
        x, y,
        fdiv(fneg(f_norm),
             sqrt(fsub(pow(IF flt(a_, b_) THEN fdiv(b_, a_) ELSE fdiv(a_, b_), 2),
                       F(1)))),
        fsub(fmod(fadd(IF flt(a_, b_) THEN fsub(phi, M_PI_2) ELSE phi, M_PI_2), M_PI),
             M_PI_2),
        x0, y0)

ellipse_lengths(x, y, f_norm, _N, _S, _R, phi, x0, y0) ==
    ellipse_axes(x, y, f_norm,
                 sqrt(fdiv(_N, fsub(_S, _R))), sqrt(fdiv(_N, fsub(fneg(_S), _R))),
                 phi, x0, y0)

ellipse_conic(x, y, f_norm, a, b, c, d, f, g, _D, phi) ==
    ellipse_lengths(
        x, y, f_norm,
        fdiv(fmul(F(2),
                  fsub(fsub(fadd(fadd(fmul(a, pow(f, 2)), fmul(c, pow(d, 2))),
                                 fmul(g, pow(b, 2))),
                            fmul(fmul(fmul(F(2), b), d), f)),
                       fmul(fmul(a, c), g))),
             _D),
        sqrt(fadd(pow(fsub(a, c), 2), fmul(F(4), pow(b, 2)))),
        fadd(a, c),
        IF fgt(a, c) THEN fadd(phi, M_PI_2) ELSE phi,
        fdiv(fsub(fmul(c, d), fmul(b, f)), _D),
        fdiv(fsub(fmul(a, f), fmul(b, d)), _D))

(* 1/2 is an integer division *)
ellipse_coefficients(x, y, f_norm, a, b, c, d, f, g) ==
    ellipse_conic(x, y, f_norm, a, b, c, d, f, g,
                  fsub(pow(b, 2), fmul(a, c)),
                  fmul(F(1 \div 2), atan(fdiv(fmul(F(2), b), fsub(a, c)))))

ellipse_parameters(x, y, f_norm, parameters) ==
    ellipse_coefficients(x, y, f_norm,
                         parameters[0], fdiv(parameters[1], F(2)), parameters[2],
                         fdiv(parameters[3], F(2)), fdiv(parameters[4], F(2)),
                         parameters[5])

ellipse_analysis(x, y, f_norm) == ellipse_parameters(x, y, f_norm, svd(conic_rows(x, y)))

(* intersection with the two determinants A and B exchanged *)
intersection_exchanged(x, y) ==
    LET A == fsub(fmul(x[2], y[3]), fmul(y[2], x[3]))
        B == fsub(fmul(x[0], y[1]), fmul(y[0], x[1]))
        C == fsub(fmul(fsub(x[0], x[1]), fsub(y[2], y[3])),
                  fmul(fsub(y[0], y[1]), fsub(x[2], x[3])))
        numerator_x == fsub(fmul(A, fsub(x[2], x[3])), fmul(B, fsub(x[0], x[1])))
        numerator_y == fsub(fmul(A, fsub(y[2], y[3])), fmul(B, fsub(y[0], y[1])))
    IN  [x_i |-> fdiv(numerator_x, C), y_i |-> fdiv(numerator_y, C)]

intersection(x, y) ==
    LET A == fsub(fmul(x[0], y[1]), fmul(y[0], x[1]))
        B == fsub(fmul(x[2], y[3]), fmul(y[2], x[3]))
        C == fsub(fmul(fsub(x[0], x[1]), fsub(y[2], y[3])),
                  fmul(fsub(y[0], y[1]), fsub(x[2], x[3])))
        numerator_x == fsub(fmul(A, fsub(x[2], x[3])), fmul(B, fsub(x[0], x[1])))
        numerator_y == fsub(fmul(A, fsub(y[2], y[3])), fmul(B, fsub(y[0], y[1])))
    IN  [x_i |-> fdiv(numerator_x, C), y_i |-> fdiv(numerator_y, C)]

(* A11 x + A12 y + A13 z *)
row(A1, A2, A3, x, y, z) == fadd(fadd(fmul(A1, x), fmul(A2, y)), fmul(A3, z))

(* rotate_rho_delta with the sines and cosines of its angles *)
rotate_rho_delta_A(s_rho, c_rho, s_delta, c_delta, x, y, z) ==
    fvector(<<row(c_rho, 0, s_rho, x, y, z),
              row(fmul(s_rho, s_delta), c_delta, fmul(fneg(c_rho), s_delta), x, y, z),
              row(fmul(fneg(s_rho), c_delta), s_delta, fmul(c_rho, c_delta), x, y, z)>>)

rotate_rho_delta(rho, delta, x, y, z) ==
    rotate_rho_delta_A(sin(rho), cos(rho), sin(delta), cos(delta), x, y, z)

(* rotate_rho_delta_rho_h with the sines and cosines of its angles *)
rotate_rho_delta_rho_h_A(s_rho, c_rho, s_delta, c_delta, s_rho_h, c_rho_h, x, y, z) ==
    fvector(<<row(fsub(fmul(c_rho, c_rho_h), fmul(fmul(s_rho, c_delta), s_rho_h)),
                  fmul(s_delta, s_rho_h),
                  fadd(fmul(s_rho, c_rho_h), fmul(fmul(c_rho, c_delta), s_rho_h)),
                  x, y, z),
              row(fmul(s_rho, s_delta), c_delta, fmul(fneg(c_rho), s_delta), x, y, z),
              row(fsub(fmul(fneg(c_rho), s_rho_h), fmul(fmul(s_rho, c_delta), c_rho_h)),
                  fmul(s_delta, c_rho_h),
                  fadd(fmul(fneg(s_rho), s_rho_h), fmul(fmul(c_rho, c_delta), c_rho_h)),
                  x, y, z)>>)

rotate_rho_delta_rho_h(rho, delta, rho_h, x, y, z) ==
    rotate_rho_delta_rho_h_A(sin(rho), cos(rho), sin(delta), cos(delta),
                             sin(rho_h), cos(rho_h), x, y, z)

(* if (rotate_rho_delta_rho_h (...) [2] < 0) rho_h -= M_PI *)
rho_h_oriented(rho, delta, rho_h, f_norm, center_x, center_y) ==
    IF flt(rotate_rho_delta_rho_h(rho, delta, rho_h, center_x, center_y, f_norm)[2], 0)
    THEN fsub(rho_h, M_PI) ELSE rho_h

rho_h_horizon(rho, delta, x_h, z_h, f_norm, center_x, center_y) ==
    rho_h_oriented(rho, delta,
                   IF feq(z_h, 0) THEN (IF fgt(x_h, 0) THEN 0 ELSE M_PI)
                   ELSE fsub(M_PI_2, atan(fdiv(x_h, z_h))),
                   f_norm, center_x, center_y)

rho_h_shifted(rho, delta, x_0, z_0, Delta, f_norm, center_x, center_y) ==
    rho_h_horizon(rho, delta, fadd(x_0, Delta.x), fadd(z_0, Delta.y),
                  f_norm, center_x, center_y)

rho_h_rotated(rho, delta, p0, p1, f_norm, center_x, center_y) ==
    IF feq(p0[1], p1[1]) THEN (IF feq(p0[1], 0) THEN NAN ELSE 0)
    ELSE rho_h_shifted(rho, delta, p0[0], p0[2],
                       central_projection(
                           fvector(<<fsub(p1[0], p0[0]), fsub(p1[2], p0[2]),
                                     fsub(p1[1], p0[1])>>),
                           fneg(p0[1])),
                       f_norm, center_x, center_y)

determine_rho_h(rho, delta, x, y, f_norm, center_x, center_y) ==
    rho_h_rotated(rho, delta,
                  rotate_rho_delta(rho, delta, x[0], y[0], f_norm),
                  rotate_rho_delta(rho, delta, x[0], y[0], f_norm),
                  f_norm, center_x, center_y)

(* The steps of calculate_angles, last step first: each one takes the values
   the function has computed so far.  The reference parameters
   center_of_control_points_x and _y are not among them: they go back to the
   caller as they came in. *)

(* if (isnan (rho_h)) rho_h = ... *)
unless_nan(rho_h, otherwise) == IF isnan(rho_h) THEN otherwise ELSE rho_h

angles_rho_h(x, y, rho, delta, alpha, swapped_verticals_and_horizontals, center_x, center_y, f_norm) ==
    [rho |-> rho, delta |-> delta, alpha |-> alpha,
     rho_h |->
        IF size(x) = 4
        THEN unless_nan(
                 determine_rho_h(
                     rho, delta,
                     IF swapped_verticals_and_horizontals
                     THEN fvector(<<center_x, center_x>>)
                     ELSE fvector(<<fsub(center_x, F(1)), fadd(center_x, F(1))>>),
                     IF swapped_verticals_and_horizontals
                     THEN fvector(<<fsub(center_y, F(1)), fadd(center_y, F(1))>>)
                     ELSE fvector(<<center_y, center_y>>),
                     f_norm, center_x, center_y),
                 0)
        ELSE IF size(x) = 5 \/ size(x) = 7 THEN 0
        ELSE unless_nan(
                 determine_rho_h(rho, delta, slice(x, 4, 6), slice(y, 4, 6),
                                 f_norm, center_x, center_y),
                 IF size(x) = 8
                 THEN determine_rho_h(rho, delta, slice(x, 6, 8), slice(y, 6, 8),
                                      f_norm, center_x, center_y)
                 ELSE 0)]

(* the roll from the direction c of the lines *)
angles_alpha(x, y, rho, delta, c, p5_, p6_, center_x, center_y, f_norm) ==
    angles_rho_h(
        x, y, rho, delta,
        IF size(x) = 7
        THEN (IF fgt(fabs(c[0]), fabs(c[1]))
              THEN fsub(fneg(fmod(fsub(fneg(atan2(fsub(p6_.y, p5_.y), fsub(p6_.x, p5_.x))),
                                       M_PI_2),
                                  M_PI)),
                        M_PI_2)
              ELSE fsub(fneg(fmod(fneg(atan2(fsub(p6_.y, p5_.y), fsub(p6_.x, p5_.x))),
                                  M_PI)),
                        M_PI_2))
        ELSE IF fgt(fabs(c[0]), fabs(c[1]))
        THEN (IF fgt(rho, 0) THEN M_PI_2 ELSE fneg(M_PI_2))
        ELSE 0,
        size(x) # 7 /\ fgt(fabs(c[0]), fabs(c[1])),
        center_x, center_y, f_norm)

angles_c(x, y, rho, delta, a, b, x_v, y_v, center_x, center_y, f_norm) ==
    angles_alpha(
        x, y, rho, delta,
        IF size(x) \in {4, 6, 8}
        THEN fvector(<<fadd(a[0], b[0]), fadd(a[1], b[1])>>)
        ELSE IF size(x) = 5
        THEN fvector(<<fsub(x_v, center_x), fsub(y_v, center_y)>>)
        ELSE fvector(<<fsub(x[5], x[6]), fsub(y[5], y[6])>>),
        central_projection(rotate_rho_delta(rho, delta, x[5], y[5], f_norm), f_norm),
        central_projection(rotate_rho_delta(rho, delta, x[6], y[6], f_norm), f_norm),
        center_x, center_y, f_norm)

(* if (rotate_rho_delta (...) [2] < 0) delta -= M_PI *)
angles_delta(x, y, rho, delta, x_v, y_v, center_x, center_y, f_norm) ==
    angles_c(x, y, rho,
             IF flt(rotate_rho_delta(rho, delta, center_x, center_y, f_norm)[2], 0)
             THEN fsub(delta, M_PI) ELSE delta,
             normalize(fsub(x_v, x[0]), fsub(y_v, y[0])),
             normalize(fsub(x_v, x[2]), fsub(y_v, y[2])),
             x_v, y_v, center_x, center_y, f_norm)

angles_rho(x, y, x_v, y_v, center_x, center_y, f_norm) ==
    angles_delta(x, y,
                 atan(fdiv(fneg(x_v), f_norm)),
                 fsub(M_PI_2,
                      atan(fdiv(fneg(y_v), sqrt(fadd(pow(x_v, 2), pow(f_norm, 2)))))),
                 x_v, y_v, center_x, center_y, f_norm)

(* the parameter f_normalized is a copy: the assignment stays in the function *)
angles_f_normalized(x, y, f_normalized_, x_v, y_v, radicand, center_x, center_y) ==
    angles_rho(x, y, x_v, y_v, center_x, center_y,
               IF size(x) = 8 /\ fge(radicand, 0) THEN sqrt(radicand) ELSE f_normalized_)

angles_vanishing_points(x, y, f_normalized_, ellipse, v, h, center_x, center_y) ==
    angles_f_normalized(
        x, y, f_normalized_,
        IF size(x) = 5 \/ size(x) = 7 THEN ellipse.x_v ELSE v.x_i,
        IF size(x) = 5 \/ size(x) = 7 THEN ellipse.y_v ELSE v.y_i,
        fsub(fmul(fneg(h.x_i), v.x_i), fmul(h.y_i, v.y_i)),
        IF size(x) = 5 \/ size(x) = 7 THEN ellipse.center_x ELSE center_x,
        IF size(x) = 5 \/ size(x) = 7 THEN ellipse.center_y ELSE center_y)

angles_returned(a, center_of_control_points_x, center_of_control_points_y) ==
    [rho |-> a.rho, delta |-> a.delta, rho_h |-> a.rho_h, alpha |-> a.alpha,
     center_of_control_points_x |-> center_of_control_points_x,
     center_of_control_points_y |-> center_of_control_points_y]

calculate_angles(x, y, f_normalized_, center_of_control_points_x, center_of_control_points_y) ==
    angles_returned(
        angles_vanishing_points(
            x, y, f_normalized_,
            ellipse_analysis(slice(x, 0, 5), slice(y, 0, 5), f_normalized_),
            intersection(slice(x, 0, 4), slice(y, 0, 4)),
            intersection(slice(x, 4, 8), slice(y, 4, 8)),
            IF size(x) = 6 THEN fdiv(accumulate(x, 0, 4), F(4))
            ELSE fdiv(accumulate(x, 0, size(x)), F(size(x))),
            IF size(x) = 6 THEN fdiv(accumulate(y, 0, 4), F(4))
            ELSE fdiv(accumulate(y, 0, size(x)), F(size(x)))),
        center_of_control_points_x, center_of_control_points_y)

(* The steps of generate_rotation_matrix, last step first. *)

(* the conversion of the quaternion to a rotation matrix *)
quaternion_matrix(w, x, y, z) ==
    fvector(<<
      fvector(<<fsub(fsub(F(1), fmul(F(2), pow(y, 2))), fmul(F(2), pow(z, 2))),
                fsub(fmul(fmul(F(2), x), y), fmul(fmul(F(2), z), w)),
                fadd(fmul(fmul(F(2), x), z), fmul(fmul(F(2), y), w))>>),
      fvector(<<fadd(fmul(fmul(F(2), x), y), fmul(fmul(F(2), z), w)),
                fsub(fsub(F(1), fmul(F(2), pow(x, 2))), fmul(F(2), pow(z, 2))),
                fsub(fmul(fmul(F(2), y), z), fmul(fmul(F(2), x), w))>>),
      fvector(<<fsub(fmul(fmul(F(2), x), z), fmul(fmul(F(2), y), w)),
                fadd(fmul(fmul(F(2), y), z), fmul(fmul(F(2), x), w)),
                fsub(fsub(F(1), fmul(F(2), pow(x, 2))), fmul(F(2), pow(y, 2)))>>)>>)

(* x *= s_theta; y *= s_theta; z *= s_theta *)
quaternion_scaled(w, s_theta, x, y, z) ==
    quaternion_matrix(w, fmul(x, s_theta), fmul(y, s_theta), fmul(z, s_theta))

(* w = cos (theta / 2); s_theta = sin (theta / 2) *)
quaternion_composed(theta, x, y, z) ==
    quaternion_scaled(cos(fdiv(theta, F(2))), sin(fdiv(theta, F(2))), x, y, z)

(* if (theta > 0.9 * M_PI) ... else if (theta < - 0.9 * M_PI) ... *)
quaternion_limited(theta, x, y, z) ==
    quaternion_composed(IF fgt(theta, fmul(900, M_PI)) THEN fmul(900, M_PI)
                        ELSE IF flt(theta, fmul(-900, M_PI)) THEN fmul(-900, M_PI)
                        ELSE theta,
                        x, y, z)

compression == 10000

(* x /= s_theta; y /= s_theta; z /= s_theta; theta *= ... *)
quaternion_axis(theta, s_theta, x, y, z, d) ==
    quaternion_limited(
        fmul(theta,
             IF fle(d, 0) THEN fadd(d, F(1))
             ELSE fadd(F(1),
                       fmul(fdiv(F(1), compression),
                            log(fadd(fmul(compression, d), F(1)))))),
        fdiv(x, s_theta), fdiv(y, s_theta), fdiv(z, s_theta))

(* s_theta = sin (theta / 2) *)
quaternion_angle(theta, x, y, z, d) ==
    quaternion_axis(theta, sin(fdiv(theta, F(2))), x, y, z, d)

(* theta = 2 * acos (w); if (theta > M_PI) theta -= 2 * M_PI *)
quaternion_decomposed(theta, x, y, z, d) ==
    quaternion_angle(IF fgt(theta, M_PI) THEN fsub(theta, fmul(F(2), M_PI)) ELSE theta,
                     x, y, z, d)

(* the product of the quaternions of the three rotations *)
quaternion_product(s_rho_2, c_rho_2, s_delta, c_delta, s_rho_1, c_rho_1, d) ==
    quaternion_decomposed(
        fmul(F(2), acos(fsub(fmul(fmul(c_rho_2, c_delta), c_rho_1),
                             fmul(fmul(s_rho_2, c_delta), s_rho_1)))),
        fadd(fmul(fmul(c_rho_2, s_delta), c_rho_1), fmul(fmul(s_rho_2, s_delta), s_rho_1)),
        fadd(fmul(fmul(c_rho_2, c_delta), s_rho_1), fmul(fmul(s_rho_2, c_delta), c_rho_1)),
        fsub(fmul(fmul(c_rho_2, s_delta), s_rho_1), fmul(fmul(s_rho_2, s_delta), c_rho_1)),
        d)

generate_rotation_matrix(rho_1, delta, rho_2, d) ==
    quaternion_product(sin(fdiv(rho_2, F(2))), cos(fdiv(rho_2, F(2))),
                       sin(fdiv(delta, F(2))), cos(fdiv(delta, F(2))),
                       sin(fdiv(rho_1, F(2))), cos(fdiv(rho_1, F(2))), d)

old_image_center == "old_image_center"
control_points_center == "control_points_center"

(* The same test without the upper limit on the number of points. *)
invalid_arguments_unbounded(this, number_of_control_points) ==
    fle(this.f_normalized, 0) \/ number_of_control_points < 4

(* The test that makes enable_perspective_correction return at once. *)
invalid_arguments(this, number_of_control_points) ==
    fle(this.f_normalized, 0) \/ number_of_control_points < 4
        \/ number_of_control_points > 8

(* The steps of enable_perspective_correction after its two tests of the
   arguments, last step first: each one takes the values the function has
   computed so far; f is the modifier's f_normalized. *)

(* the 12 floats of tmp, registered unless center_coords [2] <= 0 *)
correction_registered(f, x, y, d, a, z, new_image_center, center_coords, mapping_scale, A_bwd, A, Delta_a, Delta_b) ==
    [returns |-> ~fle(center_coords[2], 0),
     exit |-> IF fle(center_coords[2], 0) THEN "behind" ELSE "registered",
     tmp |-> IF fle(center_coords[2], 0) THEN <<>>
             ELSE fvector(<<
                 fmul(A[0][0], mapping_scale), fmul(A[0][1], mapping_scale), A[0][2],
                 fmul(A[1][0], mapping_scale), fmul(A[1][1], mapping_scale), A[1][2],
                 fmul(A[2][0], mapping_scale), fmul(A[2][1], mapping_scale), A[2][2],
                 f, fdiv(Delta_a, mapping_scale), fdiv(Delta_b, mapping_scale)>>),
     locals |-> [x |-> x, y |-> y, d |-> d, rho |-> a.rho, delta |-> a.delta,
                 rho_h |-> a.rho_h, alpha |-> a.alpha,
                 center_of_control_points_x |-> a.center_of_control_points_x,
                 center_of_control_points_y |-> a.center_of_control_points_y,
                 z |-> z, new_image_center |-> new_image_center,
                 center_coords |-> center_coords, mapping_scale |-> mapping_scale,
                 A_bwd |-> A_bwd, A |-> A]]

(* Delta_b reads the Delta_a just written *)
correction_shift(f, x, y, d, a, z, new_image_center, center_coords, mapping_scale, A_bwd, A, Delta_a, Delta) ==
    correction_registered(
        f, x, y, d, a, z, new_image_center, center_coords, mapping_scale, A_bwd, A,
        Delta_a,
        fadd(fmul(fneg(sin(a.alpha)), Delta_a), fmul(cos(a.alpha), Delta.y)))

(* each cell is overwritten in turn: A [i][1] reads the new A [i][0] *)
correction_fold(f, x, y, d, a, z, new_image_center, center_coords, mapping_scale, A_bwd, A_0, Delta) ==
    correction_shift(
        f, x, y, d, a, z, new_image_center, center_coords, mapping_scale, A_bwd,
        [i \in 0 .. 2 |->
            fvector(<<A_0[i],
                      fadd(fmul(fneg(sin(a.alpha)), A_0[i]),
                           fmul(cos(a.alpha), A_bwd[i][1])),
                      A_bwd[i][2]>>)],
        fadd(fmul(cos(a.alpha), Delta.x), fmul(sin(a.alpha), Delta.y)),
        Delta)

correction_backward(f, x, y, d, a, z, new_image_center, center_coords, A_bwd) ==
    correction_fold(
        f, x, y, d, a, z, new_image_center, center_coords,
        fdiv(f, center_coords[2]), A_bwd,
        [i \in 0 .. 2 |->
            fadd(fmul(cos(a.alpha), A_bwd[i][0]), fmul(sin(a.alpha), A_bwd[i][1]))],
        central_projection(center_coords, f))

correction_center(f, x, y, d, a, z, new_image_center, A) ==
    correction_backward(
        f, x, y, d, a, z, new_image_center,
        IF new_image_center = old_image_center
        THEN fvector(<<fmul(A[0][2], f), fmul(A[1][2], f), fmul(A[2][2], f)>>)
        ELSE fvector(<<
               row(A[0][0], A[0][1], A[0][2],
                   a.center_of_control_points_x, a.center_of_control_points_y, f),
               row(A[1][0], A[1][1], A[1][2],
                   a.center_of_control_points_x, a.center_of_control_points_y, f),
               row(A[2][0], A[2][1], A[2][2],
                   a.center_of_control_points_x, a.center_of_control_points_y, f)>>),
        generate_rotation_matrix(fneg(a.rho_h), fneg(a.delta), fneg(a.rho), d))

correction_forward(f, x, y, d, a, z) ==
    correction_center(
        f, x, y, d, a, z,
        IF fle(z, 0) \/ fgt(fdiv(f, z), F(10))
        THEN control_points_center ELSE old_image_center,
        generate_rotation_matrix(a.rho, a.delta, a.rho_h, d))

correction_angles(f, x, y, d, a) ==
    correction_forward(f, x, y, d, a,
                       rotate_rho_delta_rho_h(a.rho, a.delta, a.rho_h, 0, 0, f)[2])

(* enable_perspective_correction on the modifier this.  stack is what the two
   uninitialized locals center_of_control_points_x and _y hold. *)
enable_perspective_correction(this, x_in, y_in, d_in, stack) ==
    IF invalid_arguments(this, size(x_in))
    THEN [returns |-> FALSE, exit |-> "invalid", tmp |-> <<>>, locals |-> <<>>]
    ELSE correction_angles(
             this.f_normalized,
             [i \in DOMAIN x_in |-> fsub(fmul(x_in[i], this.NormScale), this.CenterX)],
             [i \in DOMAIN y_in |-> fsub(fmul(y_in[i], this.NormScale), this.CenterY)],
             IF flt(d_in, F(-1)) THEN F(-1) ELSE IF fgt(d_in, F(1)) THEN F(1) ELSE d_in,
             calculate_angles(
                 [i \in DOMAIN x_in |-> fsub(fmul(x_in[i], this.NormScale), this.CenterX)],
                 [i \in DOMAIN y_in |-> fsub(fmul(y_in[i], this.NormScale), this.CenterY)],
                 this.f_normalized,
                 stack.center_of_control_points_x, stack.center_of_control_points_y))

ModifyCoord_Perspective_Correction(data, io, count) ==
    LET k1 == data[0]
        one_minus_k1 == fsub(F(1), k1)
        x(i) == io[2 * (i \div 2)]
        y(i) == io[2 * (i \div 2) + 1]
        poly2(i) == fadd(one_minus_k1, fmul(k1, fadd(pow(x(i), 2), pow(y(i), 2))))
    IN  [i \in 0 .. 2 * count - 1 |-> fmul(io[i], poly2(i))]

(* The pipeline of the enclosing modifier keeps a copy of the block. *)
AddCoordCallback(list, callback, priority, data) ==
    Append(list, [callback |-> callback, priority |-> priority, data |-> data])

(* ------------------------------------------------------------------ *)
(* The modifiers, control points and strengths the model runs over.    *)
(* ------------------------------------------------------------------ *)
MaxCalls == 2

Modifiers == {
    [f_normalized |-> F(1), NormScale |-> F(1), CenterX |-> 0, CenterY |-> 0],
    [f_normalized |-> 0, NormScale |-> F(1), CenterX |-> 0, CenterY |-> 0],
    [f_normalized |-> -500, NormScale |-> F(1), CenterX |-> 0, CenterY |-> 0],
    [f_normalized |-> 1200, NormScale |-> F(2), CenterX |-> 100, CenterY |-> -100]}

points(xs, ys) == [x |-> fvector(xs), y |-> fvector(ys)]

(* an axis-aligned rectangle around the optical axis *)
Rectangle == points(<<-500, -500, 500, 500>>, <<-500, 500, -500, 500>>)
(* two verticals that converge far above the image *)
Keystone == points(<<-500, -600, 500, 600>>, <<-500, 500, -500, 500>>)
(* two verticals that converge just above the optical axis *)
Steep == points(<<-250, -500, 250, 500>>, <<225, 500, 225, 500>>)
(* two lines that converge to the left: horizontals *)
Sideways == points(<<-500, 500, -500, 500>>, <<-400, -500, 400, 500>>)
TooFew == points(<<-500, -600, 500>>, <<-500, 500, -500>>)
TooMany == points(<<-500, -600, 500, 600, 0, 100, 200, 300, 400>>,
                  <<-500, 500, -500, 500, 0, 0, 100, 100, 200>>)
WithHorizon == points(<<-500, -600, 500, 600, -400, 400>>,
                      <<-500, 500, -500, 500, 200, 250>>)
(* verticals and horizontals whose vanishing points give a radicand >= 0 *)
TwoPairs == points(<<-500, -600, 500, 600, -500, 800, -500, 800>>,
                   <<-500, 500, -500, 500, -300, -188, 400, 372>>)
(* the same with the horizontals converging above the axis: radicand < 0 *)
TwoPairsNegative == points(<<-500, -600, 500, 600, -500, 800, -500, 800>>,
                           <<-500, 500, -500, 500, -400, -380, 300, 180>>)
RectangleTwoPairs == points(<<-500, -500, 500, 500, -500, 500, -500, 500>>,
                            <<-500, 500, -500, 500, -500, -500, 500, 500>>)
Ellipse == points(<<800, 400, -400, -752, 400>>, <<100, 446, 446, -37, -246>>)
EllipseWithDirection == points(<<800, 400, -400, -752, 400, -300, 300>>,
                               <<100, 446, 446, -37, -246, -200, -150>>)

ControlPoints == {Rectangle, Keystone, Steep, Sideways, TooFew, TooMany, WithHorizon,
                  TwoPairs, TwoPairsNegative, RectangleTwoPairs, Ellipse,
                  EllipseWithDirection}

Strengths == {F(-2), F(-1), 0, 500, F(1), F(10)}

(* What the two uninitialized float locals can hold: whatever the stack held. *)
Stack == {[center_of_control_points_x |-> 0, center_of_control_points_y |-> 0],
          [center_of_control_points_x |-> 500, center_of_control_points_y |-> F(-3)]}

CoordBuffers == {fvector(<<0, 0>>), fvector(<<100, 0>>),
                 fvector(<<500, -300, 100, 0>>)}

(* Every call the model makes, evaluated once. *)
Outcome ==
    [this \in Modifiers, p \in ControlPoints, d \in Strengths, stack \in Stack |->
        enable_perspective_correction(this, p.x, p.y, d, stack)] @@ <<>>

(* ------------------------------------------------------------------ *)
(* The specification of the modifier.                                  *)
(* ------------------------------------------------------------------ *)
modifier == [f_normalized |-> f_normalized, NormScale |-> NormScale,
             CenterX |-> CenterX, CenterY |-> CenterY]

Init ==
    /\ \E m \in Modifiers :
          /\ f_normalized = m.f_normalized
          /\ NormScale = m.NormScale
          /\ CenterX = m.CenterX
          /\ CenterY = m.CenterY
    /\ control_points \in ControlPoints
    /\ callbacks = <<>>
    /\ calls = <<>>
    /\ iocoord = [count |-> 0]
    /\ args = <<>>
    /\ result = <<>>

(* The application calls enable_perspective_correction with its control
   points and a strength. *)
EnablePerspectiveCorrection ==
    /\ Len(calls) < MaxCalls
    /\ \E d \in Strengths, stack \in Stack :
          LET r == Outcome[modifier, control_points, d, stack]
          IN  /\ calls' = Append(calls, [d |-> d, returns |-> r.returns,
                                         exit |-> r.exit, tmp |-> r.tmp,
                                         locals |-> r.locals,
                                         registered |-> Len(callbacks)])
              /\ callbacks' =
                     IF r.exit = "registered"
                     THEN AddCoordCallback(callbacks,
                                           "ModifyCoord_Perspective_Correction", 200, r.tmp)
                     ELSE callbacks
    /\ UNCHANGED <<f_normalized, NormScale, CenterX, CenterY, control_points,
                   iocoord, args, result>>

(* The pipeline runs a registered callback over a buffer of coordinates. *)
ApplyCallback ==
    /\ \E i \in 1 .. Len(callbacks), buffer \in CoordBuffers :
          LET count == size(buffer) \div 2
          IN  iocoord' = [count |-> count, data |-> callbacks[i].data, in |-> buffer,
                          out |-> ModifyCoord_Perspective_Correction(
                                      callbacks[i].data, buffer, count)]
    /\ UNCHANGED <<f_normalized, NormScale, CenterX, CenterY, callbacks,
                   control_points, calls, args, result>>

Next == EnablePerspectiveCorrection \/ ApplyCallback

Spec == Init /\ [][Next]_vars

(* ------------------------------------------------------------------ *)
(* generate_rotation_matrix and intersection on their own: the         *)
(* arguments are drawn at the start, the step applies the function.    *)
(* ------------------------------------------------------------------ *)
Angles == {0, 300, -700, M_PI_2, -M_PI_2, M_PI}
RotationStrengths == {F(-1), 0, F(1)}

InitRotation ==
    /\ args \in [rho_1 : Angles, delta : Angles, rho_2 : Angles, d : RotationStrengths]
    /\ result = <<>>
    /\ f_normalized = 0 /\ NormScale = 0 /\ CenterX = 0 /\ CenterY = 0
    /\ callbacks = <<>> /\ control_points = <<>> /\ calls = <<>>
    /\ iocoord = [count |-> 0]

GenerateRotationMatrix ==
    /\ result = <<>>
    /\ result' = generate_rotation_matrix(args.rho_1, args.delta, args.rho_2, args.d)
    /\ UNCHANGED <<f_normalized, NormScale, CenterX, CenterY, callbacks,
                   control_points, calls, iocoord, args>>

SpecRotation == InitRotation /\ [][GenerateRotationMatrix]_vars

Coordinates == {0, 500, F(1)}

InitIntersection ==
    /\ args \in [x : [0 .. 3 -> Coordinates], y : [0 .. 3 -> Coordinates]]
    /\ result = <<>>
    /\ f_normalized = 0 /\ NormScale = 0 /\ CenterX = 0 /\ CenterY = 0
    /\ callbacks = <<>> /\ control_points = <<>> /\ calls = <<>>
    /\ iocoord = [count |-> 0]

Intersection ==
    /\ result = <<>>
    /\ result' = intersection(args.x, args.y)
    /\ UNCHANGED <<f_normalized, NormScale, CenterX, CenterY, callbacks,
                   control_points, calls, iocoord, args>>

SpecIntersection == InitIntersection /\ [][Intersection]_vars

(* ------------------------------------------------------------------ *)
(* svd on its own: the matrix is drawn at the start; the steps follow  *)
(* the while loop and the two for loops over the pairs of columns.     *)
(* ------------------------------------------------------------------ *)
Entries == {0, 500, F(1), NAN}

(* the points of the first ellipse 2000 times as far from the axis: their
   squares and products are beyond the largest finite value *)
FarEllipseX == [i \in 0 .. 4 |-> 2000 * EllipseX[i]]
FarEllipseY == [i \in 0 .. 4 |-> 2000 * EllipseY[i]]

Matrices ==
    [0 .. 1 -> [0 .. 1 -> Entries]]
        \cup {conic_rows(EllipseX, EllipseY), conic_rows(WideEllipseX, WideEllipseY),
              conic_rows(FarEllipseX, FarEllipseY)}

InitSvd ==
    /\ args \in [M : Matrices]
    /\ result = <<>>
    /\ f_normalized = 0 /\ NormScale = 0 /\ CenterX = 0 /\ CenterY = 0
    /\ callbacks = <<>> /\ control_points = <<>> /\ calls = <<>>
    /\ iocoord = [count |-> 0]

(* the declarations, M.resize and the identity below M *)
SvdEnter ==
    /\ result = <<>>
    /\ result' = [pc |-> "while", n |-> size(args.M[0]),
                  M |-> svd_resized(args.M, size(args.M[0])),
                  S2 |-> [i \in 0 .. size(args.M[0]) - 1 |-> 0],
                  estimated_column_rank |-> size(args.M[0]),
                  counter |-> size(args.M[0]), iterations |-> 0, cycles |-> 0,
                  j |-> 0, k |-> 0]
    /\ UNCHANGED <<f_normalized, NormScale, CenterX, CenterY, callbacks,
                   control_points, calls, iocoord, args>>

(* counter != 0 && iterations++ <= max_cycles holds: the body starts;
   cycles counts the runs of the body *)
SvdWhile ==
    /\ result # <<>> /\ result.pc = "while"
    /\ result.counter # 0 /\ result.iterations <= max_cycles(result.n)
    /\ result' = [result EXCEPT
                     !.pc = "for", !.iterations = @ + 1, !.cycles = @ + 1,
                     !.counter = (result.estimated_column_rank
                                  * (result.estimated_column_rank - 1)) \div 2,
                     !.j = 0, !.k = 1]
    /\ UNCHANGED <<f_normalized, NormScale, CenterX, CenterY, callbacks,
                   control_points, calls, iocoord, args>>

(* the body of the two for loops for the columns j < k, and k++ or j++ *)
SvdPair ==
    /\ result # <<>> /\ result.pc = "for"
    /\ result.j < result.estimated_column_rank - 1
    /\ LET s == svd_columns(result, result.j, result.k, result.n)
           last == result.k + 1 >= result.estimated_column_rank
       IN  result' = [result EXCEPT
                         !.M = s.M, !.S2 = s.S2, !.counter = s.counter,
                         !.j = IF last THEN @ + 1 ELSE @,
                         !.k = IF last THEN result.j + 2 ELSE @ + 1]
    /\ UNCHANGED <<f_normalized, NormScale, CenterX, CenterY, callbacks,
                   control_points, calls, iocoord, args>>

(* the for loops are over: the while loop that lowers estimated_column_rank *)
SvdRank ==
    /\ result # <<>> /\ result.pc = "for"
    /\ result.j >= result.estimated_column_rank - 1
    /\ result' = [result EXCEPT
                     !.pc = "while",
                     !.estimated_column_rank = svd_rank(result.S2, @)]
    /\ UNCHANGED <<f_normalized, NormScale, CenterX, CenterY, callbacks,
                   control_points, calls, iocoord, args>>

(* the condition fails (iterations++ is evaluated only if counter != 0):
   the warning and the result *)
SvdReturn ==
    /\ result # <<>> /\ result.pc = "while"
    /\ ~(result.counter # 0 /\ result.iterations <= max_cycles(result.n))
    /\ LET iterations == IF result.counter # 0 THEN result.iterations + 1
                         ELSE result.iterations
       IN  result' = [pc |-> "returned", n |-> result.n, cycles |-> result.cycles,
                      counter |-> result.counter, iterations |-> iterations,
                      g_warning |-> iterations > max_cycles(result.n),
                      result |-> svd_result(result.M, result.n)]
    /\ UNCHANGED <<f_normalized, NormScale, CenterX, CenterY, callbacks,
                   control_points, calls, iocoord, args>>

NextSvd == SvdEnter \/ SvdWhile \/ SvdPair \/ SvdRank \/ SvdReturn

SpecSvd == InitSvd /\ [][NextSvd]_vars


(* ------------------------------------------------------------------ *)
(* The properties.                                                     *)
(* ------------------------------------------------------------------ *)
Tolerance == 25

(* two floats agree: within the tolerance, or the same non-finite value *)
close(a, b) == IF isfinite(a) /\ isfinite(b) THEN iabs(a - b) <= Tolerance ELSE a = b

Calls == 1 .. Len(calls)
Solved == {i \in Calls : calls[i].exit # "invalid"}
Registered == {i \in Calls : calls[i].exit = "registered"}

(* C1: a call with fewer than 4 or more than 8 control points, or with *)
(* f_normalized <= 0, returns false and leaves the registered          *)
(* callbacks as they were.                                             *)
C1_InvalidArgumentsRejected ==
    [][(calls' # calls
          /\ (fle(f_normalized, 0) \/ size(control_points.x) < 4
                \/ size(control_points.x) > 8))
       => (calls'[Len(calls')].returns = FALSE /\ callbacks' = callbacks)]_vars

C1_Witness ==
    /\ Len(calls) = MaxCalls /\ callbacks = <<>>
    /\ (fle(f_normalized, 0) \/ size(control_points.x) > 8)
    /\ \A i \in Calls : calls[i].returns = FALSE

(* C2: a call returns true only if center_coords[2] is strictly        *)
(* positive, and then mapping_scale is a positive finite number; with   *)
(* any other center_coords[2], NaN included, it returns false and       *)
(* registers nothing.                                                   *)
C2_PositiveReferenceDepth ==
    \A i \in Solved :
        LET l == calls[i].locals
        IN  /\ calls[i].returns =>
                 /\ fgt(l.center_coords[2], 0)
                 /\ isfinite(l.mapping_scale) /\ fgt(l.mapping_scale, 0)
            /\ ~fgt(l.center_coords[2], 0) =>
                 calls[i].returns = FALSE /\ calls[i].exit # "registered"

(* the map the parameter block [M00..M22, f_normalized, sa, sb] stands for *)
perspective(data, x, y) ==
    LET f == data[9]
        px == fadd(x, data[10])
        py == fadd(y, data[11])
        x_ == row(data[0], data[1], data[2], px, py, f)
        y_ == row(data[3], data[4], data[5], px, py, f)
        z_ == row(data[6], data[7], data[8], px, py, f)
    IN  [x |-> fdiv(fmul(x_, f), z_), y |-> fdiv(fmul(y_, f), z_)]

IdentityBlock == fvector(<<F(1), 0, 0, 0, F(1), 0, 0, 0, F(1), F(1), 0, 0>>)

(* C3: the callback maps every pair (x, y) of the buffer to            *)
(* (x' f / z', y' f / z') with (x', y', z') = M (x + sa, y + sb, f);    *)
(* with the identity block (0.1, 0) stays (0.1, 0).                     *)
C3_CallbackAppliesBlock ==
    iocoord.count > 0 =>
        /\ \A k \in 0 .. iocoord.count - 1 :
              LET e == perspective(iocoord.data, iocoord.in[2 * k], iocoord.in[2 * k + 1])
              IN  close(iocoord.out[2 * k], e.x) /\ close(iocoord.out[2 * k + 1], e.y)
        /\ (iocoord.data = IdentityBlock /\ iocoord.in = fvector(<<100, 0>>))
              => iocoord.out = fvector(<<100, 0>>)

(* C4: with the same modifier and control points, a call with d > 1    *)
(* returns what a call with d = 1 returns and registers the same block, *)
(* and a call with d < -1 does what a call with d = -1 does.            *)
C4_StrengthClamped ==
    \A i \in Calls, j \in Calls :
        ((fgt(calls[i].d, F(1)) /\ calls[j].d = F(1))
            \/ (flt(calls[i].d, F(-1)) /\ calls[j].d = F(-1)))
        => (calls[i].returns = calls[j].returns /\ calls[i].tmp = calls[j].tmp)

(* C5: with 8 control points whose vanishing points give a radicand    *)
(* -x_h x_v - y_h y_v >= 0, the block a call registers holds            *)
(* sqrt(radicand) at index 9.                                           *)
C5_RefinedFocalLengthStored ==
    \A i \in Registered :
        LET l == calls[i].locals
            v == intersection(slice(l.x, 0, 4), slice(l.y, 0, 4))
            h == intersection(slice(l.x, 4, 8), slice(l.y, 4, 8))
            radicand == fsub(fmul(fneg(h.x_i), v.x_i), fmul(h.y_i, v.y_i))
        IN  (size(l.x) = 8 /\ fge(radicand, 0)) => calls[i].tmp[9] = sqrt(radicand)

(* C6: two calls with the same modifier, the same control points and   *)
(* the same d return the same boolean and register the same block.      *)
C6_Deterministic ==
    \A i \in Calls, j \in Calls :
        calls[i].d = calls[j].d
        => (calls[i].returns = calls[j].returns /\ calls[i].tmp = calls[j].tmp)

(* C7: the rho_h that calculate_angles hands back is never NaN.        *)
C7_RhoHNeverNaN ==
    \A i \in Solved : ~isnan(calls[i].locals.rho_h)

(* C10: the center that calculate_angles hands back is the mean of the *)
(* first 4 normalized control points when N = 6 and of all N otherwise. *)
C10_ReferenceCenterIsMean ==
    \A i \in Solved :
        LET l == calls[i].locals
            n == size(l.x)
            m == IF n = 6 THEN 4 ELSE n
        IN  /\ close(l.center_of_control_points_x, fdiv(accumulate(l.x, 0, m), F(m)))
            /\ close(l.center_of_control_points_y, fdiv(accumulate(l.y, 0, m), F(m)))

dot(A, i, j) ==
    fadd(fadd(fmul(A[0][i], A[0][j]), fmul(A[1][i], A[1][j])), fmul(A[2][i], A[2][j]))

det(A) ==
    fadd(fsub(fmul(A[0][0], fsub(fmul(A[1][1], A[2][2]), fmul(A[1][2], A[2][1]))),
              fmul(A[0][1], fsub(fmul(A[1][0], A[2][2]), fmul(A[1][2], A[2][0])))),
         fmul(A[0][2], fsub(fmul(A[1][0], A[2][1]), fmul(A[1][1], A[2][0]))))

Identity == [i \in 0 .. 2 |-> [j \in 0 .. 2 |-> IF i = j THEN F(1) ELSE 0]]

(* C8: with d = 0, generate_rotation_matrix returns a matrix of numbers *)
(* A with A^T A = I and det(A) = +1, and for the angles (0, 0, 0) the   *)
(* identity matrix.                                                     *)
C8_RotationOrthogonal ==
    (result # <<>> /\ args.d = 0) =>
        /\ \A i \in 0 .. 2, j \in 0 .. 2 :
              /\ isfinite(result[i][j])
              /\ close(dot(result, i, j), IF i = j THEN F(1) ELSE 0)
        /\ close(det(result), F(1))
        /\ (args.rho_1 = 0 /\ args.delta = 0 /\ args.rho_2 = 0) => result = Identity

(* (px, py) lies on the line through (ax, ay) and (bx, by) *)
collinear(ax, ay, bx, by, px, py) ==
    close(fsub(fmul(fsub(bx, ax), fsub(py, ay)), fmul(fsub(by, ay), fsub(px, ax))), 0)

(* C9: for two lines that are not parallel, intersection returns a     *)
(* point on the line through (x0,y0),(x1,y1) and on the line through    *)
(* (x2,y2),(x3,y3); (0,0)-(1,1) and (0,1)-(1,0) give (0.5, 0.5).        *)
C9_IntersectionOnBothLines ==
    result # <<>> =>
        LET x == args.x
            y == args.y
            C == (x[0] - x[1]) * (y[2] - y[3]) - (y[0] - y[1]) * (x[2] - x[3])
        IN  /\ C # 0 =>
                 /\ isfinite(result.x_i) /\ isfinite(result.y_i)
                 /\ collinear(x[0], y[0], x[1], y[1], result.x_i, result.y_i)
                 /\ collinear(x[2], y[2], x[3], y[3], result.x_i, result.y_i)
            /\ (x = fvector(<<0, F(1), 0, F(1)>>) /\ y = fvector(<<0, F(1), F(1), 0>>))
                 => (result.x_i = 500 /\ result.y_i = 500)

C9_Witness ==
    /\ result # <<>>
    /\ args.x = fvector(<<0, F(1), 0, F(1)>>) /\ args.y = fvector(<<0, F(1), F(1), 0>>)
    /\ result = [x_i |-> 500, y_i |-> 500]

(* C11: svd leaves its while loop, and for a matrix of width n < 120 the *)
(* body of the loop has run at most max_cycles = 30 times, at any moment *)
(* and at the return, whether or not counter has reached zero.           *)
C11_AtMostMaxCycles ==
    result # <<>> => (result.n < 120 => result.cycles <= 30)

(* C12: in every call that reaches the fold of the roll alpha, the      *)
(* matrix A after the fold is the product of the backward rotation      *)
(* A_bwd and R_z(alpha): in each row i, A[i][0] is                      *)
(* cos(alpha) A_bwd[i][0] + sin(alpha) A_bwd[i][1], A[i][1] is          *)
(* -sin(alpha) A_bwd[i][0] + cos(alpha) A_bwd[i][1], both from the      *)
(* values before the fold, and A[i][2] is A_bwd[i][2].                  *)
C12_RollIsMatrixProduct ==
    \A c \in Solved :
        LET alpha == calls[c].locals.alpha
            A_old == calls[c].locals.A_bwd
            A == calls[c].locals.A
        IN  \A i \in 0 .. 2 :
                /\ close(A[i][0], fadd(fmul(cos(alpha), A_old[i][0]),
                                       fmul(sin(alpha), A_old[i][1])))
                /\ close(A[i][1], fadd(fmul(fneg(sin(alpha)), A_old[i][0]),
                                       fmul(cos(alpha), A_old[i][1])))
                /\ A[i][2] = A_old[i][2]

====
